---- MODULE Spec2Model ----
(***************************************************************************)
(* Model of playwright-cookie-collector's crawl core.                      *)
(*                                                                         *)
(* src/models/crawlerModel.js holds two classes named CrawlerModel:        *)
(*   - the recursive, domain-scoped crawler (lines 12-191), and            *)
(*   - the queue-based, bounded-concurrency crawler (lines 206-278).       *)
(* The variable `variant` says which of the two a behaviour runs; both use *)
(* the fields visited, cookieLog and maxPages.  The browsing engine is the *)
(* environment: every engine call either fails or returns a value drawn    *)
(* from a bounded set.  CrawlerController.start (crawlerController.js)     *)
(* runs the queue-based crawler between launching the browser and writing  *)
(* the result file.                                                        *)
(***************************************************************************)
EXTENDS Integers, Sequences, FiniteSets, TLC

VARIABLES
  variant,             \* "queue" | "recursive": which CrawlerModel class runs
  startUrl,            \* constructor argument
  maxPages,            \* this.maxPages
  waitAfterClickMs,    \* this.waitAfterClickMs
  maxConcurrency,      \* this.maxConcurrency (queue-based)
  visited,             \* this.visited: a JS Set, kept in insertion order
  queue,               \* this.queue (queue-based)
  cookieLog,           \* this.cookieLog
  recordedCookieNames, \* this.recordedCookieNames (recursive)
  activePromises,      \* crawl(browser)'s local array; elements are visit ids
  visits,              \* every visit started so far, in start order
  pc,                  \* where the top-level crawl call stands
  awaitResult,         \* state of the Promise.race / Promise.all being awaited
  stack,               \* call stack of crawl(url, browser) (recursive)
  failures,            \* engine calls that have failed so far
  appended,            \* history: every URL put into this.queue, in push order
  discovered,          \* history: every http(s) link a link extraction returned
  ctl,                 \* where CrawlerController.start stands; "off" without it
  browser,             \* this.browser of the controller: "none" | "open" | "closed"
  closeCalls,          \* calls of this.browser.close() so far
  outputData,          \* start()'s local outputData, NoOutput before line 71
  written,             \* contents fs.writeFile has stored, in order
  logged               \* calls whose failure CrawlerLogger.error has reported

vars == <<variant, startUrl, maxPages, waitAfterClickMs, maxConcurrency, visited,
          queue, cookieLog, recordedCookieNames, activePromises, visits, pc,
          awaitResult, stack, failures, appended, discovered, ctl, browser,
          closeCalls, outputData, written, logged>>

config == <<variant, startUrl, maxPages, waitAfterClickMs, maxConcurrency>>

history == <<appended, discovered>>

controller == <<ctl, browser, closeCalls, outputData, written, logged>>

(***************************************************************************)
(* Bounds of the model.                                                    *)
(***************************************************************************)
MaxPagesBound == 3     \* maxPages ranges over 0..MaxPagesBound
MaxConcArg == 2        \* the maxConcurrency argument ranges over 0..MaxConcArg
MaxLinks == 2          \* anchors returned by one link extraction
MaxDivs == 1           \* interactive divs returned by one page.$$ call
MaxFailures == 1       \* engine calls that may fail in one run

(***************************************************************************)
(* Program constants.                                                      *)
(***************************************************************************)
DefaultConcurrency == 5        \* maxConcurrency || 5
DefaultWaitAfterClickMs == 1000 \* waitAfterClickMs || 1000 (recursive)
EnvWaitAfterClickMs == 600      \* WAIT_AFTER_CLICK_MS || '600'

(***************************************************************************)
(* Strings as sequences of characters, so that endsWith and startsWith are *)
(* computed and not assumed.                                               *)
(***************************************************************************)
StartsWith(s, p) == Len(p) <= Len(s) /\ SubSeq(s, 1, Len(p)) = p

EndsWith(s, p) == Len(p) <= Len(s) /\ SubSeq(s, Len(s) - Len(p) + 1, Len(s)) = p

Https == <<"h", "t", "t", "p", "s">>
Mailto == <<"m", "a", "i", "l", "t", "o">>
HttpPrefix == <<"h", "t", "t", "p">>

SeedHost == <<"a", ".", "e">>
SubHost == <<"s", ".", "a", ".", "e">>
LookalikeHost == <<"x", "a", ".", "e">>
OtherHost == <<"b", ".", "o">>

Url(scheme, host, path) == [scheme |-> scheme, host |-> host, path |-> path]

SeedUrl == Url(Https, SeedHost, "/")
PageX == Url(Https, SeedHost, "/x")
SubUrl == Url(Https, SubHost, "/")
LookalikeUrl == Url(Https, LookalikeHost, "/")
OtherUrl == Url(Https, OtherHost, "/")
MailUrl == Url(Mailto, <<>>, "")

\* Absolute http(s) URLs a page may link or redirect to.
WebUrls == {SeedUrl, PageX, SubUrl, LookalikeUrl, OtherUrl}

(***************************************************************************)
(* JS Set and Array helpers on sequences.                                  *)
(***************************************************************************)
Range(s) == {s[i] : i \in 1..Len(s)}

Has(s, x) == x \in Range(s)

\* Set.prototype.add: no effect when the element is present.
SetAdd(s, x) == IF Has(s, x) THEN s ELSE Append(s, x)

\* Array.prototype.indexOf, 0-based, -1 when absent.
IndexOf(s, x) ==
  IF Has(s, x) THEN (CHOOSE i \in 1..Len(s) : s[i] = x /\ \A j \in 1..(i - 1) : s[j] # x) - 1
  ELSE -1

\* Array.prototype.splice(start, 1); a negative start counts from the end.
Splice1(s, start) ==
  LET k == IF start < 0 THEN (IF Len(s) + start < 0 THEN 0 ELSE Len(s) + start) ELSE start
  IN IF k >= Len(s) THEN s
     ELSE [i \in 1..(Len(s) - 1) |-> IF i <= k THEN s[i] ELSE s[i + 1]]

\* Sequences over S of length at most n.
SeqsUpTo(S, n) == UNION {[1..k -> S] : k \in 0..n}

(***************************************************************************)
(* What the browsing engine may answer.                                    *)
(***************************************************************************)
Cookie(name, domain) == [name |-> name, domain |-> domain]

SessionCookie == Cookie("session", SeedHost)
ConsentCookie == Cookie("consent", SeedHost)

Cookies == {SessionCookie, ConsentCookie}

\* Results of context.cookies() after a page has loaded.
CookieJars == {{}, {SessionCookie}, {SessionCookie, ConsentCookie}}

\* Results of context.cookies() in the queue-based crawler, which stores them whole.
QCookieJars == {{}, {SessionCookie}}

\* link.href values of the a[href] elements of a page (already absolute): a
\* page of the seed's site (which may link to itself), a foreign page, and a
\* link that is not http(s).
HrefLists == SeqsUpTo({PageX, OtherUrl, MailUrl}, MaxLinks)

\* An engine call returns (TRUE) or throws (FALSE); at most MaxFailures throw.
Outcomes == IF failures < MaxFailures THEN BOOLEAN ELSE {TRUE}

Failed(ok) == failures' = IF ok THEN failures ELSE failures + 1

(***************************************************************************)
(* Visits: one record per browsing context the crawler asked for.          *)
(*   ctx, page: "none" | "open" | "closed"                                 *)
(*   outcome:   "pending" | "fulfilled" | "rejected" (the visit's promise) *)
(*   error:     "none", or the engine call whose failure the visit saw     *)
(***************************************************************************)
NewVisit(url) ==
  [url |-> url, pc |-> "newContext", ctx |-> "none", page |-> "none",
   outcome |-> "pending", error |-> "none"]

(***************************************************************************)
(*                     The queue-based crawler                             *)
(***************************************************************************)

\* constructor, line 218: this.maxConcurrency = maxConcurrency || 5
EffectiveConcurrency(arg) == IF arg = 0 THEN DefaultConcurrency ELSE arg

\* Mutant: the page-budget test left out.
BudgetLeftAlways(v) == TRUE

\* this.visited.size < this.maxPages (lines 224 and 227)
BudgetLeft(v) == Len(v) < maxPages

\* Mutant: the concurrency test left out.
SlotFreeAlways(active) == TRUE

\* activePromises.length < this.maxConcurrency (line 226)
SlotFree(active) == Len(active) < maxConcurrency

\* Mutant: the URL is not added to visited when its visit is dispatched.
ClaimNotAtDispatch(v, url) == v

\* crawlUrl's first statement, run synchronously by the call: line 247
ClaimAtDispatch(v, url) == SetAdd(v, url)

\* The synchronous part of `this.crawlUrl(url, browser)` followed by
\* activePromises.push(promise): lines 230-236 and 247-250.
StartCrawlUrl(st, url) ==
  [st EXCEPT !.visited = ClaimAtDispatch(@, url),
             !.visits = Append(@, NewVisit(url)),
             !.active = Append(@, Len(st.visits) + 1)]

\* Mutant: the URL is taken from the back of the queue.
ShiftLast(q) == [url |-> q[Len(q)], rest |-> SubSeq(q, 1, Len(q) - 1)]

\* const url = this.queue.shift(): line 228
Shift(q) == [url |-> Head(q), rest |-> Tail(q)]

\* The inner while loop, lines 225-238.
RECURSIVE InnerWhile(_)
InnerWhile(st) ==
  IF Len(st.queue) > 0 /\ SlotFree(st.active) /\ BudgetLeft(st.visited)
  THEN LET url == Shift(st.queue).url
           s1 == [st EXCEPT !.queue = Shift(@).rest]
       IN IF ~Has(s1.visited, url) THEN InnerWhile(StartCrawlUrl(s1, url))
          ELSE InnerWhile(s1)
  ELSE st

\* The outer while loop up to its next await, lines 224-243.
RECURSIVE OuterWhile(_)
OuterWhile(st) ==
  IF (Len(st.queue) > 0 \/ Len(st.active) > 0) /\ BudgetLeft(st.visited)
  THEN LET s1 == InnerWhile(st)
       IN IF Len(s1.active) > 0 THEN [s1 EXCEPT !.pc = "race"] ELSE OuterWhile(s1)
  ELSE [st EXCEPT !.pc = "all"]

\* Run crawl(browser) from the top of its loop to the next await.
RunLoop ==
  LET st == OuterWhile([queue |-> queue, visited |-> visited,
                        active |-> activePromises, visits |-> visits, pc |-> pc])
  IN /\ queue' = st.queue
     /\ visited' = st.visited
     /\ activePromises' = st.active
     /\ visits' = st.visits
     /\ pc' = st.pc
     \* Promise.all([]) is fulfilled at once; Promise.race never sees [] (line 239)
     /\ awaitResult' = IF st.pc = "all" /\ st.active = <<>> THEN "fulfilled" ELSE "pending"

\* crawl(browser) is called: lines 221-224.
Crawl ==
  /\ variant = "queue"
  /\ pc = "init"
  /\ RunLoop
  /\ UNCHANGED <<config, controller, history, cookieLog, recordedCookieNames, stack, failures>>

\* Mutant: an await goes on before the promise it waits for has settled.
SettledAlways(result) == TRUE

\* An `await` goes on only once its promise has settled: lines 240 and 243.
Settled(result) == result # "pending"

\* `await Promise.race(activePromises)` returns or throws: line 240.
ResumeRace ==
  /\ variant = "queue"
  /\ pc = "race"
  /\ Settled(awaitResult)
  /\ IF awaitResult = "rejected"
     THEN /\ pc' = "rejected"
          /\ UNCHANGED <<queue, visited, activePromises, visits, awaitResult>>
     ELSE RunLoop
  /\ UNCHANGED <<config, controller, history, cookieLog, recordedCookieNames, stack, failures>>

\* `await Promise.all(activePromises)` returns or throws: line 243.
ResumeAll ==
  /\ variant = "queue"
  /\ pc = "all"
  /\ Settled(awaitResult)
  /\ pc' = IF awaitResult = "rejected" THEN "rejected" ELSE "done"
  /\ UNCHANGED <<config, controller, history, queue, visited, activePromises, visits, awaitResult,
                 cookieLog, recordedCookieNames, stack, failures>>

\* Mutant: no .catch handler on the visit's promise.
CaughtNot(outcome) == outcome

\* .catch(err => console.error(...)): line 231
Caught(outcome) == "fulfilled"

\* Mutant: a settled visit is not removed from activePromises.
RemoveSettledNot(active, i) == active

\* .finally(() => { activePromises.splice(activePromises.indexOf(promise), 1) }):
\* lines 232-234
RemoveSettled(active, i) == Splice1(active, IndexOf(active, i))

\* crawlUrl's promise settles with `outcome`; the .catch and .finally handlers of
\* lines 231-234 run, and the promise held in activePromises settles.
Settle(i, outcome, op) ==
  LET chained == Caught(outcome)
      active1 == RemoveSettled(activePromises, i)
  IN /\ visits' = [visits EXCEPT ![i].pc = "done", ![i].outcome = outcome,
                                 ![i].ctx = IF op = "none" THEN "closed" ELSE @,
                                 ![i].error = IF op = "none" THEN @ ELSE op]
     /\ activePromises' = active1
     /\ awaitResult' =
          IF awaitResult # "pending" THEN awaitResult
          ELSE IF pc = "race" THEN chained
          ELSE IF pc = "all"
               THEN (IF chained = "rejected" THEN "rejected"
                     ELSE IF active1 = <<>> THEN "fulfilled" ELSE "pending")
          ELSE awaitResult

QVisit(i) == variant = "queue" /\ i \in 1..Len(visits)

\* const context = await browser.newContext(): line 250
QNewContext(i) ==
  /\ QVisit(i) /\ visits[i].pc = "newContext"
  /\ \E ok \in Outcomes :
       /\ Failed(ok)
       /\ IF ok THEN /\ visits' = [visits EXCEPT ![i].pc = "newPage", ![i].ctx = "open"]
                     /\ UNCHANGED <<activePromises, awaitResult>>
          ELSE Settle(i, "rejected", "newContext")
  /\ UNCHANGED <<config, controller, history, visited, queue, cookieLog, recordedCookieNames, pc, stack>>

\* const page = await context.newPage(): line 251
QNewPage(i) ==
  /\ QVisit(i) /\ visits[i].pc = "newPage"
  /\ \E ok \in Outcomes :
       /\ Failed(ok)
       /\ IF ok THEN /\ visits' = [visits EXCEPT ![i].pc = "goto", ![i].page = "open"]
                     /\ UNCHANGED <<activePromises, awaitResult>>
          ELSE Settle(i, "rejected", "newPage")
  /\ UNCHANGED <<config, controller, history, visited, queue, cookieLog, recordedCookieNames, pc, stack>>

\* catch (e) { console.error(...) }: lines 271-273, then on to line 275
QCatch(i, op) == [visits EXCEPT ![i].pc = "pageClose", ![i].error = op]

\* await page.goto(url, { waitUntil: 'load' }): line 254
QGoto(i) ==
  /\ QVisit(i) /\ visits[i].pc = "goto"
  /\ \E ok \in Outcomes :
       /\ Failed(ok)
       /\ visits' = IF ok THEN [visits EXCEPT ![i].pc = "cookies"] ELSE QCatch(i, "goto")
  /\ UNCHANGED <<config, controller, history, visited, queue, cookieLog, recordedCookieNames,
                 activePromises, pc, awaitResult, stack>>

\* The entry crawlUrl appends: line 256
QEvent(url, cookies) == [url |-> url, cookies |-> cookies]

\* const cookies = await context.cookies(); this.cookieLog.push(...): lines 255-256
QCookies(i) ==
  /\ QVisit(i) /\ visits[i].pc = "cookies"
  /\ \E ok \in Outcomes :
       /\ Failed(ok)
       /\ IF ok
          THEN \E cookies \in QCookieJars :
                 /\ cookieLog' = Append(cookieLog, QEvent(visits[i].url, cookies))
                 /\ visits' = [visits EXCEPT ![i].pc = "eval"]
          ELSE /\ visits' = QCatch(i, "cookies")
               /\ UNCHANGED cookieLog
  /\ UNCHANGED <<config, controller, history, visited, queue, recordedCookieNames, activePromises, pc,
                 awaitResult, stack>>

\* .filter(href => href.startsWith('http')): line 259
HttpOnly(hrefs) == SelectSeq(hrefs, LAMBDA h : StartsWith(h.scheme, HttpPrefix))

\* Mutant: no link is ever pushed.
EnqueueableNever(v, q, href) == FALSE

\* if (!this.visited.has(href) && !this.queue.includes(href)): line 263
Enqueueable(v, q, href) == ~Has(v, href) /\ ~Has(q, href)

\* for (const href of anchors) { ... this.queue.push(href) }: lines 262-266
RECURSIVE PushAll(_, _, _)
PushAll(v, q, hrefs) ==
  IF hrefs = <<>> THEN q
  ELSE PushAll(v, IF Enqueueable(v, q, Head(hrefs)) THEN Append(q, Head(hrefs)) ELSE q,
               Tail(hrefs))

\* What the pushes of line 264 added to a queue that was q and is now q2.
Pushed(q, q2) == SubSeq(q2, Len(q) + 1, Len(q2))

\* await page.$$eval('a[href]', ...) and the loop after it: lines 258-270
QEval(i) ==
  /\ QVisit(i) /\ visits[i].pc = "eval"
  /\ \E ok \in Outcomes :
       /\ Failed(ok)
       /\ IF ok
          THEN \E hrefs \in HrefLists :
                 /\ queue' = PushAll(visited, queue, HttpOnly(hrefs))
                 /\ appended' = appended \o Pushed(queue, queue')
                 /\ discovered' = discovered \cup Range(HttpOnly(hrefs))
                 /\ visits' = [visits EXCEPT
                      ![i].pc = IF waitAfterClickMs > 0 THEN "wait" ELSE "pageClose"]
          ELSE /\ visits' = QCatch(i, "links")
               /\ UNCHANGED <<queue, history>>
  /\ UNCHANGED <<config, controller, visited, cookieLog, recordedCookieNames, activePromises, pc,
                 awaitResult, stack>>

\* await page.waitForTimeout(this.waitAfterClickMs): line 269
QWait(i) ==
  /\ QVisit(i) /\ visits[i].pc = "wait"
  /\ \E ok \in Outcomes :
       /\ Failed(ok)
       /\ visits' = IF ok THEN [visits EXCEPT ![i].pc = "pageClose"] ELSE QCatch(i, "wait")
  /\ UNCHANGED <<config, controller, history, visited, queue, cookieLog, recordedCookieNames,
                 activePromises, pc, awaitResult, stack>>

\* await page.close(): line 275
QPageClose(i) ==
  /\ QVisit(i) /\ visits[i].pc = "pageClose"
  /\ \E ok \in Outcomes :
       /\ Failed(ok)
       /\ IF ok THEN /\ visits' = [visits EXCEPT ![i].pc = "ctxClose", ![i].page = "closed"]
                     /\ UNCHANGED <<activePromises, awaitResult>>
          ELSE Settle(i, "rejected", "pageClose")
  /\ UNCHANGED <<config, controller, history, visited, queue, cookieLog, recordedCookieNames, pc, stack>>

\* await context.close(): line 276
QCtxClose(i) ==
  /\ QVisit(i) /\ visits[i].pc = "ctxClose"
  /\ \E ok \in Outcomes :
       /\ Failed(ok)
       /\ IF ok THEN Settle(i, "fulfilled", "none") ELSE Settle(i, "rejected", "ctxClose")
  /\ UNCHANGED <<config, controller, history, visited, queue, cookieLog, recordedCookieNames, pc, stack>>

QStep(i) ==
  \/ QNewContext(i) \/ QNewPage(i) \/ QGoto(i) \/ QCookies(i) \/ QEval(i)
  \/ QWait(i) \/ QPageClose(i) \/ QCtxClose(i)

NextQ == Crawl \/ ResumeRace \/ ResumeAll \/ \E i \in 1..Len(visits) : QStep(i)

(***************************************************************************)
(*                      The recursive crawler                              *)
(*                                                                         *)
(* crawl(url, browser) calls itself, one call at a time, so the run is a   *)
(* call stack.  A frame holds the locals of one call: the visit it made,   *)
(* the divs and anchors still to handle, the links still to crawl, and    *)
(* what its page and context hold while open: page.url() and the cookies.  *)
(***************************************************************************)

\* constructor, line 25: this.startHostname = new URL(startUrl).hostname
startHostname == startUrl.host

\* Mutant: the suffix test without the leading dot.
isSameDomainNoDot(hostname) ==
  \/ hostname = startHostname
  \/ EndsWith(hostname, startHostname)

\* isSameDomain, lines 33-38
isSameDomain(hostname) ==
  \/ hostname = startHostname
  \/ EndsWith(hostname, <<".">> \o startHostname)

\* Values of the href attribute: an absolute URL, a path, or text that
\* new URL(href, base) rejects.
AbsHref(u) == [kind |-> "abs", url |-> u]
RelHref(path) == [kind |-> "rel", path |-> path]
BadHref == [kind |-> "bad"]
EmptyHref == [kind |-> "empty"]

Hrefs ==
  {AbsHref(u) : u \in {SubUrl, LookalikeUrl, OtherUrl}}
    \cup {RelHref("/x"), BadHref, EmptyHref}

\* new URL(href, page.url()).toString(), line 157; <<>> when it throws
Resolve(href, base) ==
  CASE href.kind = "abs" -> <<href.url>>
    [] href.kind = "rel" -> <<Url(base.scheme, base.host, href.path)>>
    [] OTHER -> <<>>

\* lines 160-163
Followable(v, u) == isSameDomain(u.host) /\ ~Has(v, u)

\* What one round of the anchor loop adds to links, lines 153-168.
LinkOf(v, href, base) ==
  LET abs == IF href.kind = "empty" THEN <<>> ELSE Resolve(href, base)
  IN IF abs # <<>> /\ Followable(v, abs[1]) THEN abs ELSE <<>>

\* What page.url() may be after goto(url): the URL itself or a redirect target.
FinalUrls(url) == {url, OtherUrl}

\* What page.url() may be after a click: unchanged, or a navigation.
ClickUrls(url) == {url, OtherUrl}

\* Cookies a click may add to the context.
ClickJars == {{}, {ConsentCookie}}

\* lines 121-122: the two early returns of crawl(url, browser)
Skips(v, url) == Has(v, url) \/ Len(v) >= maxPages

\* page.url() of a page that is not open
NoUrl == Url(<<>>, <<>>, "")

NewFrame(id) ==
  [id |-> id, curUrl |-> NoUrl, jar |-> {}, divs |-> 0, anchors |-> 0, links |-> <<>>]

Top == stack[Len(stack)]

Pop == SubSeq(stack, 1, Len(stack) - 1)

RAt(p) ==
  /\ variant = "recursive"
  /\ pc = "running"
  /\ stack # <<>>
  /\ visits[Top.id].pc = p

SetTop(f) == [stack EXCEPT ![Len(stack)] = f]

\* The top call returns: its caller goes on with its link loop (line 176).
Return(vs) ==
  /\ visits' = [vs EXCEPT ![Top.id].pc = "done", ![Top.id].outcome = "fulfilled"]
  /\ stack' = Pop
  /\ pc' = IF Len(stack) = 1 THEN "done" ELSE "running"

\* The top call throws: the caller's `await this.crawl(link)` (line 178) is
\* inside its try block, so the caller enters its catch block (line 180).
Throw(vs, op) ==
  /\ visits' =
       LET v1 == [vs EXCEPT ![Top.id].pc = "done", ![Top.id].outcome = "rejected",
                            ![Top.id].error = IF op = "none" THEN @ ELSE op]
       IN IF Len(stack) = 1 THEN v1
          ELSE [v1 EXCEPT ![stack[Len(stack) - 1].id].pc = "catch",
                          ![stack[Len(stack) - 1].id].error = "crawl"]
  /\ stack' = Pop
  /\ pc' = IF Len(stack) = 1 THEN "rejected" ELSE "running"

\* An await inside the try block (lines 130-179) throws: on to line 180.
EnterCatch(op) == [visits EXCEPT ![Top.id].pc = "catch", ![Top.id].error = op]

\* crawl(startUrl, browser) is called: lines 120-127.
RCrawl ==
  /\ variant = "recursive"
  /\ pc = "init"
  /\ IF Skips(visited, startUrl)
     THEN /\ pc' = "done"
          /\ UNCHANGED <<visited, visits, stack>>
     ELSE /\ visited' = SetAdd(visited, startUrl)
          /\ visits' = Append(visits, NewVisit(startUrl))
          /\ stack' = <<NewFrame(Len(visits) + 1)>>
          /\ pc' = "running"
  /\ UNCHANGED <<config, controller, history, queue, cookieLog, recordedCookieNames, activePromises,
                 awaitResult, failures>>

\* const context = await browser.newContext(): line 127 (outside the try)
RNewContext ==
  /\ RAt("newContext")
  /\ \E ok \in Outcomes :
       /\ Failed(ok)
       /\ IF ok THEN /\ visits' = [visits EXCEPT ![Top.id].pc = "newPage",
                                                 ![Top.id].ctx = "open"]
                     /\ UNCHANGED <<stack, pc>>
          ELSE Throw(visits, "newContext")
  /\ UNCHANGED <<config, controller, history, visited, queue, cookieLog, recordedCookieNames,
                 activePromises, awaitResult>>

\* const page = await context.newPage(): line 128 (outside the try)
RNewPage ==
  /\ RAt("newPage")
  /\ \E ok \in Outcomes :
       /\ Failed(ok)
       /\ IF ok THEN /\ visits' = [visits EXCEPT ![Top.id].pc = "goto",
                                                 ![Top.id].page = "open"]
                     /\ UNCHANGED <<stack, pc>>
          ELSE Throw(visits, "newPage")
  /\ UNCHANGED <<config, controller, history, visited, queue, cookieLog, recordedCookieNames,
                 activePromises, awaitResult>>

\* Mutant: the domain check on the final URL left out.
AfterGotoNoCheck(final) == "cookies"

\* if (!this.isSameDomain(new URL(page.url()).hostname)): line 135
AfterGoto(final) == IF ~isSameDomain(final.host) THEN "oosPageClose" ELSE "cookies"

\* await page.goto(...) and the domain check on page.url(): lines 132-135
RGoto ==
  /\ RAt("goto")
  /\ \E ok \in Outcomes :
       /\ Failed(ok)
       /\ IF ok
          THEN \E final \in FinalUrls(visits[Top.id].url) :
                 /\ stack' = SetTop([Top EXCEPT !.curUrl = final])
                 /\ visits' = [visits EXCEPT ![Top.id].pc = AfterGoto(final)]
          ELSE /\ visits' = EnterCatch("goto")
               /\ UNCHANGED stack
  /\ UNCHANGED <<config, controller, history, visited, queue, cookieLog, recordedCookieNames,
                 activePromises, awaitResult, pc>>

\* await page.close(): line 136
ROosPageClose ==
  /\ RAt("oosPageClose")
  /\ \E ok \in Outcomes :
       /\ Failed(ok)
       /\ visits' = IF ok THEN [visits EXCEPT ![Top.id].pc = "oosCtxClose",
                                              ![Top.id].page = "closed"]
                    ELSE EnterCatch("pageClose")
       /\ stack' = IF ok THEN SetTop([Top EXCEPT !.curUrl = NoUrl]) ELSE stack
  /\ UNCHANGED <<config, controller, history, visited, queue, cookieLog, recordedCookieNames,
                 activePromises, awaitResult, pc>>

\* await context.close(); return: lines 137-138
ROosCtxClose ==
  /\ RAt("oosCtxClose")
  /\ \E ok \in Outcomes :
       /\ Failed(ok)
       /\ IF ok THEN Return([visits EXCEPT ![Top.id].ctx = "closed"])
          ELSE /\ visits' = EnterCatch("ctxClose")
               /\ UNCHANGED <<stack, pc>>
  /\ UNCHANGED <<config, controller, history, visited, queue, cookieLog, recordedCookieNames,
                 activePromises, awaitResult>>

\* The entry captureCookies appends: lines 58-63 (the timestamp is left out)
REvent(url, step, cookies) == [url |-> url, step |-> step, cookies |-> cookies]

\* Mutant: the filter on recorded names left out.
NewCookiesAll(names, cookies) == cookies

\* lines 49-51
NewCookies(names, cookies) == {c \in cookies : c.name \notin names}

\* captureCookies after cookies() returned: lines 49-63
Capture(log, names, cookies, url, step) ==
  LET new == NewCookies(names, cookies)
  IN IF new = {} THEN [log |-> log, names |-> names]
     ELSE [log |-> Append(log, REvent(url, step, new)),
           names |-> names \cup {c.name : c \in new}]

\* await this.captureCookies(page, 'initial load'): line 142
RCaptureCookies ==
  /\ RAt("cookies")
  /\ \E ok \in Outcomes :
       /\ Failed(ok)
       /\ IF ok
          THEN \E cookies \in CookieJars :
                 LET r == Capture(cookieLog, recordedCookieNames, cookies,
                                  Top.curUrl, "initial load")
                 IN /\ cookieLog' = r.log
                    /\ recordedCookieNames' = r.names
                    /\ stack' = SetTop([Top EXCEPT !.jar = cookies])
                    /\ visits' = [visits EXCEPT ![Top.id].pc = "divs"]
          ELSE /\ visits' = EnterCatch("cookies")
               /\ UNCHANGED <<cookieLog, recordedCookieNames, stack>>
  /\ UNCHANGED <<config, controller, history, visited, queue, activePromises, awaitResult, pc>>

\* Where a call stands once `n` divs are left to handle: lines 100 and 148.
AfterDiv(n) == IF n > 0 THEN "div" ELSE "anchors"

\* const divs = await page.$$('div[role="button"], div[tabindex]'): line 99
RDivs ==
  /\ RAt("divs")
  /\ \E ok \in Outcomes :
       /\ Failed(ok)
       /\ IF ok
          THEN \E n \in 0..MaxDivs :
                 /\ stack' = SetTop([Top EXCEPT !.divs = n])
                 /\ visits' = [visits EXCEPT ![Top.id].pc = AfterDiv(n)]
          ELSE /\ visits' = EnterCatch("divs")
               /\ UNCHANGED stack
  /\ UNCHANGED <<config, controller, history, visited, queue, cookieLog, recordedCookieNames,
                 activePromises, awaitResult, pc>>

\* if (await this.isVisibleAndClickable(page, div)): lines 72-89 and 101.
\* An engine failure inside it is caught there and answers false.
RClickable ==
  /\ RAt("div")
  /\ \E clickable \in BOOLEAN :
       IF clickable
       THEN /\ visits' = [visits EXCEPT ![Top.id].pc = "click"]
            /\ UNCHANGED stack
       ELSE /\ stack' = SetTop([Top EXCEPT !.divs = @ - 1])
            /\ visits' = [visits EXCEPT ![Top.id].pc = AfterDiv(Top.divs - 1)]
  /\ UNCHANGED <<config, controller, history, visited, queue, cookieLog, recordedCookieNames,
                 activePromises, awaitResult, pc, failures>>

\* await div.click(): line 103; a failure is ignored (lines 107-109)
RClick ==
  /\ RAt("click")
  /\ \E ok \in Outcomes :
       /\ Failed(ok)
       /\ IF ok
          THEN \E url \in ClickUrls(Top.curUrl), set \in ClickJars :
                 /\ stack' = SetTop([Top EXCEPT !.curUrl = url, !.jar = @ \cup set])
                 /\ visits' = [visits EXCEPT ![Top.id].pc = "clickWait"]
          ELSE /\ stack' = SetTop([Top EXCEPT !.divs = @ - 1])
               /\ visits' = [visits EXCEPT ![Top.id].pc = AfterDiv(Top.divs - 1)]
  /\ UNCHANGED <<config, controller, history, visited, queue, cookieLog, recordedCookieNames,
                 activePromises, awaitResult, pc>>

\* await page.waitForTimeout(this.waitAfterClickMs): line 106; a failure is ignored
RClickWait ==
  /\ RAt("clickWait")
  /\ \E ok \in Outcomes :
       /\ Failed(ok)
       /\ stack' = SetTop([Top EXCEPT !.divs = @ - 1])
       /\ visits' = [visits EXCEPT ![Top.id].pc = AfterDiv(Top.divs - 1)]
  /\ UNCHANGED <<config, controller, history, visited, queue, cookieLog, recordedCookieNames,
                 activePromises, awaitResult, pc>>

\* Where a call stands once `n` anchors are left to handle: lines 151 and 172.
AfterAnchor(n) == IF n > 0 THEN "anchor" ELSE "pageClose"

\* const anchors = await page.$$('a[href]'): line 148
RAnchors ==
  /\ RAt("anchors")
  /\ \E ok \in Outcomes :
       /\ Failed(ok)
       /\ IF ok
          THEN \E n \in 0..MaxLinks :
                 /\ stack' = SetTop([Top EXCEPT !.anchors = n])
                 /\ visits' = [visits EXCEPT ![Top.id].pc = AfterAnchor(n)]
          ELSE /\ visits' = EnterCatch("links")
               /\ UNCHANGED stack
  /\ UNCHANGED <<config, controller, history, visited, queue, cookieLog, recordedCookieNames,
                 activePromises, awaitResult, pc>>

\* const href = await anchor.getAttribute('href') and the rest of one round of
\* the anchor loop: lines 151-169
RAnchor ==
  /\ RAt("anchor")
  /\ \E ok \in Outcomes :
       /\ Failed(ok)
       /\ IF ok
          THEN \E href \in Hrefs :
                 /\ stack' = SetTop([Top EXCEPT
                      !.anchors = @ - 1,
                      !.links = @ \o LinkOf(visited, href, Top.curUrl)])
                 /\ visits' = [visits EXCEPT ![Top.id].pc = AfterAnchor(Top.anchors - 1)]
          ELSE /\ visits' = EnterCatch("getAttribute")
               /\ UNCHANGED stack
  /\ UNCHANGED <<config, controller, history, visited, queue, cookieLog, recordedCookieNames,
                 activePromises, awaitResult, pc>>

\* await page.close(): line 172
RPageClose ==
  /\ RAt("pageClose")
  /\ \E ok \in Outcomes :
       /\ Failed(ok)
       /\ visits' = IF ok THEN [visits EXCEPT ![Top.id].pc = "ctxClose",
                                              ![Top.id].page = "closed"]
                    ELSE EnterCatch("pageClose")
       /\ stack' = IF ok THEN SetTop([Top EXCEPT !.curUrl = NoUrl]) ELSE stack
  /\ UNCHANGED <<config, controller, history, visited, queue, cookieLog, recordedCookieNames,
                 activePromises, awaitResult, pc>>

\* await context.close(): line 173
RCtxClose ==
  /\ RAt("ctxClose")
  /\ \E ok \in Outcomes :
       /\ Failed(ok)
       /\ visits' = IF ok THEN [visits EXCEPT ![Top.id].pc = "links",
                                              ![Top.id].ctx = "closed"]
                    ELSE EnterCatch("ctxClose")
       /\ stack' = IF ok THEN SetTop([Top EXCEPT !.jar = {}]) ELSE stack
  /\ UNCHANGED <<config, controller, history, visited, queue, cookieLog, recordedCookieNames,
                 activePromises, awaitResult, pc>>

\* if (this.visited.size >= this.maxPages) break: line 177
LoopBreaks(v) == Len(v) >= maxPages

\* One round of the link loop, lines 176-179, with the head of the callee
\* (lines 121-127) when the loop calls it.
RLinks ==
  /\ RAt("links")
  /\ IF Top.links = <<>> \/ LoopBreaks(visited)
     THEN /\ Return(visits)
          /\ UNCHANGED visited
     ELSE LET link == Head(Top.links)
              caller == SetTop([Top EXCEPT !.links = Tail(@)])
          IN IF Skips(visited, link)
             THEN /\ stack' = caller
                  /\ UNCHANGED <<visited, visits, pc>>
             ELSE /\ visited' = SetAdd(visited, link)
                  /\ visits' = Append(visits, NewVisit(link))
                  /\ stack' = Append(caller, NewFrame(Len(visits) + 1))
                  /\ UNCHANGED pc
  /\ UNCHANGED <<config, controller, history, queue, cookieLog, recordedCookieNames, activePromises,
                 awaitResult, failures>>

\* try { await page.close(); ... } catch {}: lines 182-185, first call
RCatchPageClose ==
  /\ RAt("catch")
  /\ \E ok \in Outcomes :
       /\ Failed(ok)
       /\ IF ok THEN /\ visits' = [visits EXCEPT ![Top.id].pc = "catchCtxClose",
                                                 ![Top.id].page = "closed"]
                     /\ UNCHANGED <<stack, pc>>
          ELSE Throw(visits, "none")
  /\ UNCHANGED <<config, controller, history, visited, queue, cookieLog, recordedCookieNames,
                 activePromises, awaitResult>>

\* await context.close() of line 184, then `throw err`: line 188
RCatchCtxClose ==
  /\ RAt("catchCtxClose")
  /\ \E ok \in Outcomes :
       /\ Failed(ok)
       /\ Throw(IF ok THEN [visits EXCEPT ![Top.id].ctx = "closed"] ELSE visits, "none")
  /\ UNCHANGED <<config, controller, history, visited, queue, cookieLog, recordedCookieNames,
                 activePromises, awaitResult>>

NextR ==
  \/ RCrawl \/ RNewContext \/ RNewPage \/ RGoto \/ ROosPageClose \/ ROosCtxClose
  \/ RCaptureCookies \/ RDivs \/ RClickable \/ RClick \/ RClickWait \/ RAnchors \/ RAnchor
  \/ RPageClose \/ RCtxClose \/ RLinks \/ RCatchPageClose \/ RCatchCtxClose

(***************************************************************************)
(* The state after `new CrawlerModel(...)`.                                *)
(***************************************************************************)
Variants == {"queue", "recursive"}

\* queue-based constructor, lines 212-219
InitQueue ==
  /\ waitAfterClickMs \in {0, EnvWaitAfterClickMs}
  /\ \E arg \in 0..MaxConcArg : maxConcurrency = EffectiveConcurrency(arg)
  /\ queue = <<startUrl>>
  /\ appended = <<startUrl>>

\* recursive constructor, lines 18-26; it has no queue and no maxConcurrency
InitRecursive ==
  /\ \E arg \in {0, EnvWaitAfterClickMs} :
       waitAfterClickMs = IF arg = 0 THEN DefaultWaitAfterClickMs ELSE arg
  /\ maxConcurrency = 0
  /\ queue = <<>>
  /\ appended = <<>>

\* The fields of a CrawlerModel after its constructor.
InitModel ==
  /\ variant \in Variants
  /\ startUrl = SeedUrl
  /\ maxPages \in 0..MaxPagesBound
  /\ visited = <<>>
  /\ cookieLog = <<>>
  /\ recordedCookieNames = {}
  /\ activePromises = <<>>
  /\ visits = <<>>
  /\ awaitResult = "pending"
  /\ stack = <<>>
  /\ failures = 0
  /\ discovered = {}
  /\ IF variant = "queue" THEN InitQueue ELSE InitRecursive

\* start()'s outputData before line 71
NoOutput == [startedAt |-> -1, visited |-> <<>>, cookieLog |-> <<>>]

\* The controller's state before start() has done anything; ctl says whether
\* start() is running ("mkdir") or the crawler is used without it ("off").
InitController(c) ==
  /\ ctl = c
  /\ browser = "none"
  /\ closeCalls = 0
  /\ outputData = NoOutput
  /\ written = <<>>
  /\ logged = {}

\* A crawler whose crawl method is about to be called, without the controller.
Init ==
  /\ InitModel
  /\ pc = "init"
  /\ InitController("off")

Next == NextQ \/ NextR

Spec == Init /\ [][Next]_vars

(***************************************************************************)
(* The queue-based crawler alone, with the fairness of the JS event loop:  *)
(* a continuation that is ready to run is run, and every engine call      *)
(* returns or throws.                                                      *)
(***************************************************************************)
InitQ == Init /\ variant = "queue"

SpecQ == InitQ /\ [][NextQ]_vars

FairSpecQ ==
  /\ InitQ
  /\ [][NextQ]_vars
  /\ WF_vars(Crawl \/ ResumeRace \/ ResumeAll)
  /\ \A i \in 1..(MaxPagesBound + 1) : WF_vars(QStep(i))

(***************************************************************************)
(* The recursive crawler alone.                                            *)
(***************************************************************************)
InitR == Init /\ variant = "recursive"

SpecR == InitR /\ [][NextR]_vars

(***************************************************************************)
(* Either crawler run with a page budget of one.                           *)
(***************************************************************************)
InitOnePage == Init /\ maxPages = 1

SpecOnePage == InitOnePage /\ [][Next]_vars

(***************************************************************************)
(*                     CrawlerController.start                             *)
(*                                                                         *)
(* start() creates the output directory, launches the browser, builds the  *)
(* queue-based crawler and awaits its crawl, writes the result and closes  *)
(* the browser.  fs and chromium calls fail like engine calls do.          *)
(***************************************************************************)

\* Everything of the crawler that a step of start() outside it leaves alone.
model == <<config, history, visited, queue, cookieLog, recordedCookieNames,
           activePromises, visits, awaitResult, stack>>

\* Logical time: the number of visits dispatched and of cookieLog entries
\* appended so far.
Now == Len(visits) + Len(cookieLog)

\* Mutant: the finally block never closes the browser.
BrowserSetNever(b) == FALSE

\* if (this.browser): line 85
BrowserSet(b) == b # "none"

\* Where start() stands after its try/catch: lines 84-93.
Finally(b) == IF BrowserSet(b) THEN "close" ELSE "resolved"

\* await fs.mkdir(dir, { recursive: true }): lines 45-50, and 82-93 when it throws
CtlMkdir ==
  /\ ctl = "mkdir"
  /\ \E ok \in Outcomes :
       /\ Failed(ok)
       /\ ctl' = IF ok THEN "launch" ELSE Finally(browser)
       /\ logged' = IF ok THEN logged ELSE logged \cup {"mkdir"}
  /\ UNCHANGED <<model, pc, browser, closeCalls, outputData, written>>

\* this.browser = await chromium.launch(...) and new CrawlerModel(...): lines
\* 54-65; the call of line 68 is the crawler's Crawl step.
CtlLaunch ==
  /\ ctl = "launch"
  /\ \E ok \in Outcomes :
       /\ Failed(ok)
       /\ IF ok
          THEN /\ browser' = "open"
               /\ pc' = "init"
               /\ ctl' = "crawl"
               /\ UNCHANGED logged
          ELSE /\ logged' = logged \cup {"launch"}
               /\ ctl' = Finally(browser)
               /\ UNCHANGED <<browser, pc>>
  /\ UNCHANGED <<model, closeCalls, outputData, written>>

\* outputData as lines 71-75 build it.
OutputData == [startedAt |-> Now, visited |-> visited, cookieLog |-> cookieLog]

\* `await crawler.crawl(this.browser)` returns or throws: lines 68-77 up to the
\* call of fs.writeFile, or lines 82-85.
CtlCrawled ==
  /\ ctl = "crawl"
  /\ pc \in {"done", "rejected"}
  /\ IF pc = "done"
     THEN /\ outputData' = OutputData
          /\ ctl' = "write"
          /\ UNCHANGED logged
     ELSE /\ logged' = logged \cup {"crawl"}
          /\ ctl' = Finally(browser)
          /\ UNCHANGED outputData
  /\ UNCHANGED <<model, pc, failures, browser, closeCalls, written>>

\* await fs.writeFile(this.outputPath, ...): lines 77-85
CtlWrite ==
  /\ ctl = "write"
  /\ \E ok \in Outcomes :
       /\ Failed(ok)
       /\ written' = IF ok THEN Append(written, outputData) ELSE written
       /\ logged' = IF ok THEN logged ELSE logged \cup {"writeFile"}
  /\ ctl' = Finally(browser)
  /\ UNCHANGED <<model, pc, browser, closeCalls, outputData>>

\* await this.browser.close(), whose failure is logged: lines 86-93
CtlClose ==
  /\ ctl = "close"
  /\ closeCalls' = closeCalls + 1
  /\ \E ok \in Outcomes :
       /\ Failed(ok)
       /\ browser' = IF ok THEN "closed" ELSE browser
       /\ logged' = IF ok THEN logged ELSE logged \cup {"close"}
  /\ ctl' = "resolved"
  /\ UNCHANGED <<model, pc, outputData, written>>

NextC == CtlMkdir \/ CtlLaunch \/ CtlCrawled \/ CtlWrite \/ CtlClose \/ NextQ

\* start() has been called; the crawler does not exist before line 60.
InitC ==
  /\ InitModel
  /\ variant = "queue"
  /\ pc = "notStarted"
  /\ InitController("mkdir")

SpecC == InitC /\ [][NextC]_vars

(***************************************************************************)
(*                              Claims                                     *)
(***************************************************************************)

\* Visits whose promise is still in activePromises.
InFlight == {i \in 1..Len(visits) : visits[i].pc # "done"}

\* A hostname that is the seed's or a subdomain of it.
HostInScope(h) ==
  \/ h = SeedHost
  \/ \E k \in 2..Len(h) : SubSeq(h, k, Len(h)) = <<".">> \o SeedHost

C3_InFlightWithinCap ==
  variant = "queue" =>
    /\ Cardinality(InFlight) <= maxConcurrency
    /\ maxConcurrency \in (1..MaxConcArg) \cup {DefaultConcurrency}

\* Reached: the dispatch loop has just stopped at the cap alone: as many visits
\* as the cap allows are in flight, none has run yet, a URL is still queued and
\* the page budget is not used up.
C3_Witness ==
  /\ variant = "queue"
  /\ Cardinality(InFlight) = maxConcurrency
  /\ \A i \in InFlight : visits[i].pc = "newContext"
  /\ queue # <<>>
  /\ Len(visited) < maxPages

\* C4: under the event loop's fairness, crawl(browser) of the queue-based crawler
\* eventually resolves.
C4_CrawlTerminates == <>(pc = "done")

\* Reached: the crawl has resolved with discovered URLs left in the queue, the
\* page budget having stopped it.
C4_Witness ==
  /\ pc = "done"
  /\ queue # <<>>
  /\ Len(visited) = maxPages
  /\ maxPages >= 2

\* C5: in the queue-based crawler crawl(browser) never rejects, whichever engine
\* call of a visit fails, and it stops dispatching only when the queue is empty or
\* the page budget is reached.
C5_VisitFailureDoesNotHaltRun ==
  variant = "queue" =>
    /\ pc # "rejected"
    /\ awaitResult # "rejected"
    /\ pc \in {"all", "done"} => (queue = <<>> \/ Len(visited) >= maxPages)

\* Reached: with one visit at a time, a visit rejected and a later URL was still
\* dispatched before the crawl resolved.
C5_Witness ==
  /\ variant = "queue"
  /\ maxConcurrency = 1
  /\ pc = "done"
  /\ \E i, j \in 1..Len(visits) : i < j /\ visits[i].outcome = "rejected"

\* C6: in the recursive crawler a failed page.goto never makes the top-level
\* crawl(startUrl, browser) reject.
C6_NavigationFailureDoesNotAbort ==
  (variant = "recursive" /\ \E i \in 1..Len(visits) : visits[i].error = "goto")
    => pc # "rejected"

\* C7: in the recursive crawler every visited URL, and every URL navigated to,
\* has the seed hostname or a subdomain of it.
C7_VisitedInScope ==
  variant = "recursive" =>
    /\ \A i \in 1..Len(visited) : HostInScope(visited[i].host)
    /\ \A i \in 1..Len(visits) : HostInScope(visits[i].url.host)

\* Reached: a subdomain page has been visited after the seed page.
C7_Witness ==
  /\ variant = "recursive"
  /\ Has(visited, SubUrl)
  /\ \E i \in 1..Len(visits) : visits[i].url = SubUrl /\ visits[i].outcome = "fulfilled"

\* C8: the queue-based crawler, the one CrawlerController.start runs, never
\* dispatches a visit to a URL outside the starting domain.
C8_QueueCrawlerStaysInDomain ==
  variant = "queue" =>
    /\ \A i \in 1..Len(visited) : HostInScope(visited[i].host)
    /\ \A i \in 1..Len(visits) : HostInScope(visits[i].url.host)

\* C9: once the interaction with a page is over, if the page's load was logged
\* ("initial load") and a click has put a cookie with an unrecorded name into the
\* context, the log holds a later "after interaction" event for that page.
C9_CookiesCapturedAfterInteraction ==
  \A j \in 1..Len(cookieLog) :
    (/\ RAt("anchors")
     /\ cookieLog[j].url = visits[Top.id].url
     /\ cookieLog[j].step = "initial load"
     /\ NewCookies(recordedCookieNames, Top.jar) # {})
      => \E k \in (j + 1)..Len(cookieLog) :
           /\ cookieLog[k].url = visits[Top.id].url
           /\ cookieLog[k].step = "after interaction"

\* C10: every entry of cookieLog, whether appended by captureCookies or by
\* crawlUrl, has a non-empty cookies list.
C10_EventsNonEmpty == \A j \in 1..Len(cookieLog) : cookieLog[j].cookies # {}

\* Names of the cookies of one cookieLog entry.
EventNames(e) == {c.name : c \in e.cookies}

\* C11: in the recursive crawler no cookie name appears in two events of
\* cookieLog, and a captureCookies call that observes only recorded names
\* changes neither cookieLog nor recordedCookieNames.
C11_DedupIdempotent ==
  /\ [](variant = "recursive" =>
          \A j, k \in 1..Len(cookieLog) :
            j < k => EventNames(cookieLog[j]) \cap EventNames(cookieLog[k]) = {})
  /\ [][(/\ RAt("cookies")
         /\ RAt("divs")'
         /\ {c.name : c \in Top'.jar} \subseteq recordedCookieNames)
          => /\ cookieLog' = cookieLog
             /\ recordedCookieNames' = recordedCookieNames]_vars

\* Reached: a later visit has just captured a non-empty cookie list whose names
\* were all recorded by earlier visits, and no event was logged for its page.
C11_Witness ==
  /\ RAt("divs")
  /\ Len(visits) >= 2
  /\ Top.jar # {}
  /\ {c.name : c \in Top.jar} \subseteq recordedCookieNames
  /\ \A j \in 1..Len(cookieLog) : cookieLog[j].url # Top.curUrl

\* C12: in both crawlers a visit that has returned or thrown has left neither
\* its context nor its page open.
C12_ResourcesClosedOnExit ==
  \A i \in 1..Len(visits) :
    visits[i].pc = "done" => (visits[i].ctx # "open" /\ visits[i].page # "open")

\* C15: with maxPages = 1 either crawler visits the seed URL and nothing else:
\* visited never holds anything but the seed URL, holds exactly it when the crawl
\* is over, and no visit is dispatched or recursed into for a discovered link.
C15_OnePageVisitsSeedOnly ==
  maxPages = 1 =>
    /\ visited \in {<<>>, <<startUrl>>}
    /\ pc \in {"done", "rejected"} => visited = <<startUrl>>
    /\ \A i \in 1..Len(visits) : i = 1 /\ visits[i].url = startUrl
    /\ Len(stack) <= 1

\* Reached: the crawl is over with maxPages = 1 and the links found on the seed
\* page are still in the queue, never dispatched.
C15_Witness ==
  /\ maxPages = 1
  /\ variant = "queue"
  /\ pc = "done"
  /\ visited = <<startUrl>>
  /\ queue # <<>>

\* C16: the queue-based crawl leaves its loop only with the page budget used up
\* or with an empty queue and no visit in flight; so when it resolves below the
\* budget the queue is empty and every http(s) link that a link extraction
\* returned has been visited.
C16_ExhaustiveWithinBudget ==
  variant = "queue" =>
    /\ pc \in {"all", "done"} =>
         \/ Len(visited) >= maxPages
         \/ (queue = <<>> /\ InFlight = {})
    /\ (pc = "done" /\ Len(visited) < maxPages) =>
         (queue = <<>> /\ discovered \subseteq Range(visited))

\* Reached: the crawl has resolved below the budget after visiting a page that a
\* link extraction discovered.
C16_Witness ==
  /\ variant = "queue"
  /\ pc = "done"
  /\ Len(visited) < maxPages
  /\ Len(visited) >= 2
  /\ discovered # {}

\* Position of the visit dispatched for url in dispatch order, 0 when none was.
DispatchIndex(url) ==
  IF \E i \in 1..Len(visits) : visits[i].url = url
  THEN CHOOSE i \in 1..Len(visits) : visits[i].url = url
  ELSE 0

\* C17: the queue-based crawler dispatches in the order of the pushes: if u was
\* appended to the queue before v and a visit was dispatched for v, a visit was
\* dispatched for u before it.
C17_DispatchIsFifo ==
  variant = "queue" =>
    \A a, b \in 1..Len(appended) :
      (a < b /\ DispatchIndex(appended[b]) > 0) =>
        /\ DispatchIndex(appended[a]) > 0
        /\ DispatchIndex(appended[a]) < DispatchIndex(appended[b])

\* Reached: three URLs were dispatched in push order although the visit
\* dispatched last settled while the one dispatched before it was still running.
C17_Witness ==
  /\ variant = "queue"
  /\ Len(visits) = 3
  /\ visits[3].pc = "done"
  /\ visits[2].pc # "done"
  /\ \A i \in 1..3 : visits[i].url = appended[i]

\* The top call of the recursive crawler is on the path of lines 136-138.
OutOfScopePath == RAt("oosPageClose") \/ RAt("oosCtxClose")

\* C18: in the recursive crawler a visit takes the path of lines 136-138 exactly
\* when its navigation ended outside the seed domain; on that path no step
\* changes cookieLog or recordedCookieNames, clicks, or crawls a link, so no
\* event is ever logged for an out-of-scope page; and when the two close calls
\* return, the visit returns and its caller goes on with its link loop.
C18_OutOfScopeRedirect ==
  /\ [](/\ OutOfScopePath => (Top.divs = 0 /\ Top.links = <<>>)
        /\ RAt("oosPageClose") => ~HostInScope(Top.curUrl.host)
        /\ RAt("cookies") => HostInScope(Top.curUrl.host)
        /\ variant = "recursive" =>
             \A j \in 1..Len(cookieLog) : HostInScope(cookieLog[j].url.host))
  /\ [][OutOfScopePath =>
          /\ cookieLog' = cookieLog
          /\ recordedCookieNames' = recordedCookieNames
          /\ visited' = visited
          /\ Len(visits') = Len(visits)
          /\ visits'[Top.id].pc \in {"oosCtxClose", "done", "catch"}
          /\ (RAt("oosCtxClose") /\ failures' = failures) =>
               /\ stack' = Pop
               /\ visits'[Top.id].outcome = "fulfilled"
               /\ visits'[Top.id].ctx = "closed"
               /\ visits'[Top.id].page = "closed"
               /\ pc' = IF Len(stack) = 1 THEN "done" ELSE "running"
               /\ Len(stack) > 1 =>
                    visits'[stack[Len(stack) - 1].id].pc = "links"]_vars

\* Reached: a link of a logged page redirected out of the seed domain; its visit
\* has closed its page and is about to close its context and return to a caller
\* that has further links to crawl.
C18_Witness ==
  /\ RAt("oosCtxClose")
  /\ visits[Top.id].page = "closed"
  /\ Len(stack) >= 2
  /\ stack[Len(stack) - 1].links # <<>>
  /\ cookieLog # <<>>
  /\ Len(visited) < maxPages

\* start() has built the result from the crawler's fields (line 71 onwards).
ResultBuilt == ctl \in {"write", "close", "resolved"} /\ outputData # NoOutput

\* C13: once the queue-based crawl has left its loop no visit is dispatched,
\* crawl(browser) resolves only when every dispatched visit has settled, each by
\* its own steps, and visited and cookieLog stay as they were when start()
\* built the result from them.
C13_SoftDrain ==
  /\ [](/\ pc = "done" => InFlight = {}
        /\ \A i \in 1..Len(visits) :
             (visits[i].pc = "done" /\ visits[i].error = "none") =>
               visits[i].ctx = "closed"
        /\ ResultBuilt =>
             (outputData.visited = visited /\ outputData.cookieLog = cookieLog))
  /\ [][(pc \in {"all", "done"} => Len(visits') = Len(visits))
        /\ (ResultBuilt => (visited' = visited /\ cookieLog' = cookieLog))]_vars

\* Reached: the page budget stopped the dispatch while URLs were still queued,
\* the visits in flight went on to log their entries, and start() has built
\* the result with all of them.
C13_Witness ==
  /\ ctl = "write"
  /\ maxPages >= 2
  /\ Len(visited) = maxPages
  /\ queue # <<>>
  /\ Len(outputData.cookieLog) = Len(visits)
  /\ outputData.visited = visited

\* C14: when directory creation and browser launch succeeded, start() writes
\* the result at most once, only after the crawl has resolved and before it
\* calls browser.close(); and when it resolves it has written exactly the
\* result of the crawl, whatever visits failed, unless fs.writeFile itself
\* failed.
C14_ResultWrittenOnce ==
  /\ Len(written) <= 1
  /\ written # <<>> =>
       /\ pc = "done"
       /\ written[1].visited = visited
       /\ written[1].cookieLog = cookieLog
  /\ (written = <<>> /\ "writeFile" \notin logged) => closeCalls = 0
  /\ (ctl = "resolved" /\ browser # "none") =>
       (Len(written) = 1 \/ "writeFile" \in logged)

\* Reached: start() has resolved with the result written and the browser
\* closed, after a run of several visits one of which rejected.
C14_Witness ==
  /\ ctl = "resolved"
  /\ Len(written) = 1
  /\ browser = "closed"
  /\ \E i \in 1..Len(visits) : visits[i].outcome = "rejected"
  /\ Len(visits) >= 2

\* C19: start() never rejects; when it resolves after a successful launch it
\* has called browser.close() exactly once, and never more; when directory
\* creation or launch failed, the failure is logged, no crawl was started and
\* nothing was written.
C19_BrowserAlwaysReleased ==
  /\ ctl # "rejected"
  /\ closeCalls <= 1
  /\ ctl = "resolved" =>
       IF browser = "none"
       THEN /\ logged \cap {"mkdir", "launch"} # {}
            /\ pc = "notStarted"
            /\ visits = <<>>
            /\ written = <<>>
            /\ closeCalls = 0
       ELSE closeCalls = 1
  /\ (ctl # "resolved" /\ ctl # "off") => closeCalls = 0

\* Reached: writing the output file failed after a crawl that visited pages,
\* and start() has resolved with the browser closed.
C19_Witness ==
  /\ ctl = "resolved"
  /\ "writeFile" \in logged
  /\ visits # <<>>
  /\ browser = "closed"
  /\ closeCalls = 1

\* C20: the startedAt of the result is the start time of the run: it is read
\* before the first visit is dispatched and before any entry is appended to
\* cookieLog, i.e. at logical time 0.
C20_StartedAtIsStartTime == ResultBuilt => outputData.startedAt = 0

====
